---- MODULE Spec2Model ----
(***************************************************************************)
(* A model of DynamicExecutorJS (dynamicExecutor_js_v1.js): the            *)
(* synthesize -> validate -> repair -> persist -> execute pipeline.        *)
(*                                                                         *)
(* Texts (oracle responses, code strings) are sequences of lexical units,  *)
(* names are strings with a table of their character classes, JSON texts   *)
(* are tagged values; every conversion of the source (trim, the fence      *)
(* regex, the identifier regex, JSON.stringify, JSON.parse) is an operator *)
(* computing what the source computes on these representations.            *)
(***************************************************************************)
EXTENDS Integers, Sequences, FiniteSets, TLC

VARIABLES
    store,      \* FUNCTION_CODE_DIR: file name (without .json) -> file content
    pc,         \* per caller: where its pending call stands
    op,         \* per caller: the method it called
    loc,        \* per caller: the locals of the pending call
    result,     \* per caller: what the call handed back (value or rejection)
    ghost,      \* per caller: what the pending call did (history counters)
    pre,        \* per caller: the store as it was when the call was made
    elapsed,    \* per caller: time spent inside script.runInContext / its await
    created,    \* history: the name whose creation reported success, as long
                \* as no other store operation was called since
    host_api_execution_dict_getter  \* this.host_api_execution_dict_getter

vars ==
    <<store, pc, op, loc, result, ghost, pre, elapsed, created,
      host_api_execution_dict_getter>>

----------------------------------------------------------------------------
(* Program constants *)

MAX_SYNTAX_REPAIR_RETRIES == 3

SCRIPT_TIMEOUT_MS == 15000

FUNCTION_CREATION_TOOL_NAME == "create_dynamic_function"

(* Bounds of the model *)

\* how many clock ticks a pending sandbox run is followed for
MaxTicks == 3

\* the length of one clock tick, in milliseconds
TickMs == 7500

\* the callers whose calls the sequential specification follows
Callers == {1}

----------------------------------------------------------------------------
(* JavaScript values of the string-typed arguments *)

Undefined == "<undefined>"

Null == "<null>"

\* !x for a string-typed argument x
Falsy(x) == x \in {Undefined, Null, ""}

(* Names: the character classes of each name the model uses                *)
(* "a": [a-zA-Z_$], "d": [0-9], "o": anything else                         *)
Names == {"f", "if", "123bad", "has space", FUNCTION_CREATION_TOOL_NAME}

Chars(s) ==
    CASE s = "f" -> <<"a">>
      [] s = "if" -> <<"a", "a">>
      [] s = "123bad" -> <<"d", "d", "d", "a", "a", "a">>
      [] s = "has space" -> <<"a", "a", "a", "o", "a", "a", "a", "a", "a">>
      [] s = FUNCTION_CREATION_TOOL_NAME -> [i \in 1..23 |-> "a"]
      [] OTHER -> <<>>

\* /^[a-zA-Z_$][0-9a-zA-Z_$]*$/.test(name)
IsIdentifierName(s) ==
    LET c == Chars(s)
    IN  /\ Len(c) >= 1
        /\ c[1] = "a"
        /\ \A i \in 2..Len(c) : c[i] \in {"a", "d"}

\* names the regex accepts and the language reserves: typeof <name> does not parse
IsReservedWord(s) == s = "if"

----------------------------------------------------------------------------
(* Texts *)

Tok(t, n) == [t |-> t, n |-> n]

FO == Tok("fence_javascript", "")  \* three backquotes followed by the word javascript
FC == Tok("fence", "")             \* three backquotes
WS == Tok("whitespace", "")        \* blanks, newlines
BAD == Tok("syntax_error", "")     \* a fragment that does not parse
BAD2 == Tok("syntax_error", "2")   \* another one, with another error message
STMT == Tok("statement", "")       \* a statement that parses and declares nothing
FUNC(n) == Tok("function", n)       \* async function n(params) { ... }

\* the value of an absent content (undefined), which is falsy and not a text
UndefinedText == <<Tok("undefined", "")>>

FalsyText(t) == t = <<>> \/ t = UndefinedText

\* String.prototype.trim
Trim(s) ==
    LET keep == {i \in 1..Len(s) : s[i] # WS}
    IN  IF keep = {} THEN <<>>
        ELSE LET lo == CHOOSE i \in keep : \A j \in keep : i <= j
                 hi == CHOOSE i \in keep : \A j \in keep : i >= j
             IN  SubSeq(s, lo, hi)

\* .replace(/^FO|FC$/g, ''): a fence at the very start, a fence at the very end
StripFences(s) ==
    LET a == IF Len(s) > 0 /\ s[1] = FO THEN Tail(s) ELSE s
    IN  IF Len(a) > 0 /\ a[Len(a)] = FC THEN SubSeq(a, 1, Len(a) - 1) ELSE a

\* generated_code_string.replace(...).trim()
Sanitize(g) == Trim(StripFences(g))

\* the text parses as a sequence of statements
Parses(t) == \A i \in 1..Len(t) : t[i].t \in {"whitespace", "statement", "function"}

\* evaluating the text binds a callable to the name
DefinesCallable(t, name) == \E i \in 1..Len(t) : t[i] = FUNC(name)

\* a validation that lets every text pass
ValidationScriptCompiles_AlwaysPasses(code, name) == TRUE

\* new vm.Script("let funcToCheck; <code> if (typeof <name> === 'function') ...")
\* compiles the script and runs none of it
ValidationScriptCompiles(code, name) == Parses(code) /\ ~IsReservedWord(name)

\* validation that runs the script it built: every statement of the candidate
\* is executed
StatementsRunByValidation_RunsScript(code) ==
    Len(SelectSeq(code, LAMBDA k : k.t \in {"statement", "function"}))

\* how many statements of the candidate the validation executes: new vm.Script
\* compiles the text, and the script object is dropped without being run
StatementsRunByValidation(code) == 0

----------------------------------------------------------------------------
(* JSON *)

UndefinedSchema == [ty |-> "undefined", props |-> <<>>]

NullSchema == [ty |-> "null", props |-> <<>>]

Prop(k, v) == [key |-> k, val |-> v]

\* { type: 'object' }
SchemaA == [ty |-> "object", props |-> <<Prop("type", "string")>>]

\* { type: 'object', default: undefined }
SchemaB == [ty |-> "object", props |-> <<Prop("type", "string"), Prop("default", "undefined")>>]

FalsySchema(s) == s.ty \in {"undefined", "null"}

JsonText(props) == [txt |-> "json", props |-> props]

NotJsonText == [txt |-> "garbage", props |-> <<>>]

EmptyJsonText == [txt |-> "empty", props |-> <<>>]

\* JSON.stringify given a replacer that lets no property through
JSON_stringify_NoProps(schema) == JsonText(<<>>)

\* JSON.stringify of an object: properties whose value is undefined are left out
JSON_stringify(schema) ==
    JsonText(SelectSeq(schema.props, LAMBDA p : p.val # "undefined"))

JSON_parse_throws(text) == text.txt # "json"

JSON_parse(text) == [ty |-> "object", props |-> text.props]

----------------------------------------------------------------------------
(* The function store: one JSON file per function in FUNCTION_CODE_DIR *)

FuncData(name, description, schema_json, code) ==
    [name |-> name,
     description |-> description,
     parameters_schema_json |-> schema_json,
     code_string |-> code,
     is_internal_special_function |-> FALSE]

NoData == FuncData("", "", EmptyJsonText, <<>>)

AbsentFile == [kind |-> "absent", data |-> NoData]

\* a file whose content is not the whole JSON text of a record
PartialFile == [kind |-> "partial", data |-> NoData]

\* JSON.stringify(funcData, null, 2), as the content of a file
JsonFile(data) == [kind |-> "json", data |-> data]

\* the names a file of the directory can have: the writers check the name first
StoreNames == {n \in Names : IsIdentifierName(n)}

\* a write that reads the record already in the file and keeps its description
WriteFileSync_Merge(st, name, data, w) ==
    CASE w = "ok" ->
            [st EXCEPT ![name] =
                IF st[name].kind = "json"
                THEN JsonFile([data EXCEPT !.description = st[name].data.description])
                ELSE JsonFile(data)]
      [] w = "fail_open" -> st
      [] w = "fail_truncated" -> [st EXCEPT ![name] = PartialFile]

\* fs.writeFileSync: it returns, or it throws before the file is opened, or it
\* throws after the file was opened (truncated) and before all of it is written
WriteOutcomes == {"ok", "fail_open", "fail_truncated"}

WriteFileSync(st, name, data, w) ==
    CASE w = "ok" -> [st EXCEPT ![name] = JsonFile(data)]
      [] w = "fail_open" -> st
      [] w = "fail_truncated" -> [st EXCEPT ![name] = PartialFile]

NullDefinition == [found |-> FALSE, data |-> NoData, parameters_schema |-> UndefinedSchema]

\* get_function_definition_js: null when the file is absent or cannot be parsed
get_function_definition_js(st, function_name) ==
    IF function_name \notin DOMAIN st THEN NullDefinition
    ELSE IF st[function_name].kind # "json" THEN NullDefinition
    ELSE IF JSON_parse_throws(st[function_name].data.parameters_schema_json)
    THEN NullDefinition
    ELSE [found |-> TRUE,
          data |-> st[function_name].data,
          parameters_schema |-> JSON_parse(st[function_name].data.parameters_schema_json)]

----------------------------------------------------------------------------
(* What a call hands back *)

NoResult == [kind |-> "none", tag |-> "", detail |-> "", n |-> 0]

\* a returned string: tag names the message, detail and n are what it embeds
Str(tag, detail, n) == [kind |-> "string", tag |-> tag, detail |-> detail, n |-> n]

\* a returned value that is not a string
NonString(kind) == [kind |-> kind, tag |-> "", detail |-> "", n |-> 0]

\* the promise of the call is rejected: the fault reaches the caller
Raised(detail) == [kind |-> "raised", tag |-> "", detail |-> detail, n |-> 0]

\* the messages that start with "Error"
ErrorTags ==
    {"ERR_MISSING_ARGS", "ERR_INVALID_NAME", "ERR_SYNTHESIS_FAILED", "ERR_STORE",
     "ERR_MISSING_FIELDS", "ERR_SYNTAX_PREDEFINED", "ERR_STORE_PREDEFINED",
     "ERR_MISSING_PARAM", "ERR_INTERNAL", "ERR_NOT_FOUND", "ERR_NOT_SERIALIZABLE",
     "ERR_EXEC"}

----------------------------------------------------------------------------
(* The locals of a call and its history counters *)

NoError == "null"

\* history of the last attempt of a creation: its index, how it ended, the
\* trimmed text the oracle produced in it, the message of its validation error,
\* and the last non-empty text the oracle produced in the run so far
NoHistory ==
    [k |-> -1, kind |-> "none", raw |-> <<>>, error |-> NoError, candidate |-> <<>>]

IdleLoc ==
    [function_name |-> "", params |-> "none",
     name |-> "", description |-> "", schema |-> UndefinedSchema,
     attempt |-> 0, generated_code_string |-> <<>>, last_error |-> NoError,
     sanitized_code |-> <<>>, behaviour |-> "none", fetched |-> NullDefinition,
     fault |-> "none", timer |-> "none", schema_json |-> EmptyJsonText,
     sandbox |-> {}, override |-> Null, external_apis |-> "none",
     getter_at_call |-> Null, hist |-> NoHistory]

NoGhost ==
    [oracle |-> 0, validations |-> 0, evals |-> 0, capcalls |-> 0, writes |-> 0,
     last_write |-> FALSE]

\* the history counters after caller p, whose counters become g, has called
\* fs.writeFileSync: its call is the one that wrote last
MarkWrite(gh, p, g) ==
    [q \in DOMAIN gh |-> IF q = p THEN [g EXCEPT !.writes = @ + 1, !.last_write = TRUE]
                         ELSE [gh[q] EXCEPT !.last_write = FALSE]]

Init ==
    /\ store = [n \in StoreNames |-> AbsentFile]
    /\ pc = [p \in Callers |-> "idle"]
    /\ op = [p \in Callers |-> "none"]
    /\ loc = [p \in Callers |-> IdleLoc]
    /\ result = [p \in Callers |-> NoResult]
    /\ ghost = [p \in Callers |-> NoGhost]
    /\ pre = [p \in Callers |-> store]
    /\ elapsed = [p \in Callers |-> 0]
    /\ created = {}
    /\ host_api_execution_dict_getter = Null

\* the call of caller p ends with result r
Finish(p, l, r) ==
    /\ pc' = [pc EXCEPT ![p] = "done"]
    /\ loc' = [loc EXCEPT ![p] = l]
    /\ result' = [result EXCEPT ![p] = r]

----------------------------------------------------------------------------
(* create_dynamic_function *)

NameInputs == Names \cup {Undefined, ""}

DescriptionInputs == {"d1", Undefined, ""}

SchemaInputs == {SchemaA, SchemaB, UndefinedSchema, NullSchema}

\* what the oracle may answer to a prompt for the function name; for a name
\* that is a reserved word, where no answer can pass validation, the answers
\* followed are a definition of the name and one text that does not parse
Responses(name) ==
    IF IsReservedWord(name) THEN { <<FUNC(name)>>, <<BAD>> }
    ELSE { <<>>, <<WS>>,
           <<FUNC(name)>>, <<FO, WS, FUNC(name), WS, FC>>,
           <<FO, WS, FC>>,
           <<BAD>>, <<BAD2>>, <<STMT>> }

\* the outcomes of openai_client.chat.completions.create and of reading
\* response.choices[0]?.message?.content: a fault, no content, a content
OracleOutcomes(name) ==
    {[kind |-> "throw", content |-> <<>>], [kind |-> "no_content", content |-> <<>>]}
    \cup {[kind |-> "content", content |-> c] : c \in Responses(name)}

\* _generateJSFunctionCreationPrompt: what the prompt embeds
GenerateJSFunctionCreationPrompt(name, description, schema, is_repair, previous_code, error_message) ==
    IF is_repair
    THEN [is_repair |-> TRUE, name |-> name, description |-> "", schema_text |-> EmptyJsonText,
          previous_code |-> previous_code, error_message |-> error_message]
    ELSE [is_repair |-> FALSE, name |-> name, description |-> description,
          schema_text |-> JSON_stringify(schema),
          previous_code |-> <<>>, error_message |-> NoError]

\* syntaxError.message of the validation script that did not compile: the
\* message of the candidate's own error, or of the reserved word used as name
SyntaxErrorMessage(code, name) ==
    IF \E i \in 1..Len(code) : code[i] = BAD THEN "SyntaxError: Unexpected token"
    ELSE IF \E i \in 1..Len(code) : code[i] = BAD2 THEN "SyntaxError: Unexpected end of input"
    ELSE "SyntaxError: Unexpected reserved word"

\* the loop condition written with <= : one attempt too many
LoopContinues_OffByOne(attempt) == attempt <= MAX_SYNTAX_REPAIR_RETRIES + 1

\* the loop condition: attempt < this.MAX_SYNTAX_REPAIR_RETRIES + 1
LoopContinues(attempt) == attempt < MAX_SYNTAX_REPAIR_RETRIES + 1

\* every attempt sends the synthesis prompt
IsRepairAttempt_Never(attempt) == FALSE

\* the fifth argument of the prompt builder: attempt > 0
IsRepairAttempt(attempt) == attempt > 0

\* the prompt an attempt sends, from the locals at the top of the iteration
PromptOfAttempt(l) ==
    GenerateJSFunctionCreationPrompt(l.name, l.description, l.schema,
        IsRepairAttempt(l.attempt), l.generated_code_string, l.last_error)

\* continue in the place of break: the loop goes on after a passed validation
BreaksOnValid_Continue == FALSE

\* the statement after a passed validation is break (not continue)
BreaksOnValid == TRUE

\* One iteration of the for loop, the oracle answering o:
\* the locals after it, whether it left the loop by break, how many oracle
\* calls and validations it made, how many statements of the candidate were
\* executed, and the prompt it sent
LoopIteration(l, o) ==
    LET prompt == PromptOfAttempt(l)
        g == IF o.kind = "no_content" THEN UndefinedText ELSE Trim(o.content)
        s == Sanitize(g)
    IN  IF o.kind = "throw"
        THEN [loc |-> [l EXCEPT !.last_error = "oracle_fault", !.attempt = @ + 1],
              brk |-> FALSE, oracle |-> 1, validations |-> 0, evals |-> 0,
              prompt |-> prompt]
        ELSE IF FalsyText(g)
        THEN [loc |-> [l EXCEPT !.generated_code_string = g,
                                 !.last_error = "LLM returned empty code string.",
                                 !.attempt = @ + 1],
              brk |-> FALSE, oracle |-> 1, validations |-> 0, evals |-> 0,
              prompt |-> prompt]
        ELSE IF ValidationScriptCompiles(s, l.name)
        THEN [loc |-> [l EXCEPT !.generated_code_string = g, !.sanitized_code = s,
                                 !.last_error = NoError,
                                 !.attempt = IF BreaksOnValid THEN @ ELSE @ + 1],
              brk |-> BreaksOnValid, oracle |-> 1, validations |-> 1,
              evals |-> StatementsRunByValidation(s), prompt |-> prompt]
        ELSE [loc |-> [l EXCEPT !.generated_code_string = g, !.sanitized_code = s,
                                 !.last_error = SyntaxErrorMessage(s, l.name),
                                 !.attempt = @ + 1],
              brk |-> FALSE, oracle |-> 1, validations |-> 1,
              evals |-> StatementsRunByValidation(s), prompt |-> prompt]

\* the history after the attempt that started with locals l, history h, and
\* got the oracle's answer o
AttemptHistory(h, l, o) ==
    LET raw == IF o.kind = "content" THEN Trim(o.content) ELSE <<>>
        valid == ValidationScriptCompiles(Sanitize(raw), l.name)
    IN  [k |-> l.attempt,
         kind |-> IF o.kind = "throw" THEN "oracle_fault"
                  ELSE IF raw = <<>> THEN "empty"
                  ELSE IF valid THEN "valid" ELSE "invalid",
         raw |-> raw,
         error |-> IF o.kind = "content" /\ raw # <<>> /\ ~valid
                   THEN SyntaxErrorMessage(Sanitize(raw), l.name) ELSE NoError,
         candidate |-> IF raw # <<>> THEN raw ELSE h.candidate]

\* the check of last_error after the loop left out
SynthesisFailed_Never(l) == FALSE

\* after the loop: if (last_error) return the failure message
SynthesisFailed(l) == l.last_error # NoError

\* the record written with the oracle's text as it came, fences and all
CreatedFuncData_RawCode(l) ==
    FuncData(l.name, l.description, JSON_stringify(l.schema), l.generated_code_string)

\* the record the creation writes
CreatedFuncData(l) ==
    FuncData(l.name, l.description, JSON_stringify(l.schema), l.sanitized_code)

\* The entry of create_dynamic_function up to the loop
CreateDynamicFunctionEntry(p, l) ==
    IF Falsy(l.name) \/ Falsy(l.description) \/ FalsySchema(l.schema)
    THEN Finish(p, l, Str("ERR_MISSING_ARGS", "", 0))
    ELSE IF ~IsIdentifierName(l.name)
    THEN Finish(p, l, Str("ERR_INVALID_NAME", l.name, 0))
    ELSE /\ pc' = [pc EXCEPT ![p] = "synth"]
         /\ loc' = [loc EXCEPT ![p] = l]
         /\ result' = result

\* A direct call of create_dynamic_function(name, description, schema)
CallCreateDynamicFunction(p) ==
    /\ pc[p] = "idle"
    /\ \E name \in NameInputs, d \in DescriptionInputs, s \in SchemaInputs :
         CreateDynamicFunctionEntry(p,
             [IdleLoc EXCEPT !.name = name, !.description = d, !.schema = s])
    /\ op' = [op EXCEPT ![p] = "create_dynamic_function"]
    /\ pre' = [pre EXCEPT ![p] = store]
    /\ ghost' = [ghost EXCEPT ![p] = NoGhost]
    /\ created' = {}
    /\ UNCHANGED <<store, elapsed, host_api_execution_dict_getter>>

\* One iteration of the loop, resumed by the oracle's answer; when the loop
\* ends with it, the rest of create_dynamic_function runs in the same step
CreateAttemptOn(p, outcomes, writes) ==
    /\ pc[p] = "synth"
    /\ \E o \in outcomes :
         LET it == LoopIteration(loc[p], o)
             l2 == [it.loc EXCEPT !.hist = AttemptHistory(loc[p].hist, loc[p], o)]
             g2 == [ghost[p] EXCEPT !.oracle = @ + it.oracle,
                                    !.validations = @ + it.validations,
                                    !.evals = @ + it.evals]
         IN  IF ~it.brk /\ LoopContinues(l2.attempt)
             THEN /\ loc' = [loc EXCEPT ![p] = l2]
                  /\ ghost' = [ghost EXCEPT ![p] = g2]
                  /\ UNCHANGED <<store, pc, result>>
             ELSE IF SynthesisFailed(l2)
             THEN /\ Finish(p, l2, Str("ERR_SYNTHESIS_FAILED", l2.last_error,
                                       MAX_SYNTAX_REPAIR_RETRIES + 1))
                  /\ ghost' = [ghost EXCEPT ![p] = g2]
                  /\ UNCHANGED store
             ELSE \E w \in writes :
                  /\ store' = WriteFileSync(store, l2.name, CreatedFuncData(l2), w)
                  /\ ghost' = MarkWrite(ghost, p, g2)
                  /\ Finish(p, l2, IF w = "ok" THEN Str("OK_CREATED", l2.name, 0)
                                   ELSE Str("ERR_STORE", l2.name, 0))
    /\ created' = IF pc'[p] = "done" /\ result'[p].tag = "OK_CREATED"
                  THEN {loc[p].name} ELSE {}
    /\ UNCHANGED <<op, pre, elapsed, host_api_execution_dict_getter>>

\* the loop with every answer of the oracle and every outcome of the write
CreateAttempt(p) == CreateAttemptOn(p, OracleOutcomes(loc[p].name), WriteOutcomes)

----------------------------------------------------------------------------
(* store_predefined_function_js, get_function_definition_js as a call,      *)
(* clear_function_store_js                                                  *)

SchemaJsonInputs == {JsonText(SchemaA.props), NotJsonText, EmptyJsonText}

\* the code strings a host may hand over for the function name
PredefinedCodes(name) == { <<>>, <<FUNC(name)>>, <<BAD>>, <<STMT>> }

StorePredefinedFunction(p) ==
    /\ pc[p] = "idle"
    /\ \E name \in NameInputs, d \in DescriptionInputs, sj \in SchemaJsonInputs :
       \E code \in PredefinedCodes(name) :
         LET l == [IdleLoc EXCEPT !.name = name, !.description = d,
                                  !.schema_json = sj, !.sanitized_code = code]
         IN  IF Falsy(name) \/ Falsy(d) \/ sj.txt = "empty" \/ FalsyText(code)
             THEN /\ Finish(p, l, Str("ERR_MISSING_FIELDS", name, 0))
                  /\ ghost' = [ghost EXCEPT ![p] = NoGhost]
                  /\ UNCHANGED store
             ELSE IF ~IsIdentifierName(name)
             THEN /\ Finish(p, l, Str("ERR_INVALID_NAME", name, 0))
                  /\ ghost' = [ghost EXCEPT ![p] = NoGhost]
                  /\ UNCHANGED store
             ELSE IF ~ValidationScriptCompiles(code, name)
             THEN /\ Finish(p, l, Str("ERR_SYNTAX_PREDEFINED", name, 0))
                  /\ ghost' = [ghost EXCEPT ![p] =
                                  [NoGhost EXCEPT !.validations = 1,
                                                  !.evals = StatementsRunByValidation(code)]]
                  /\ UNCHANGED store
             ELSE \E w \in WriteOutcomes :
                  /\ store' = WriteFileSync(store, name, FuncData(name, d, sj, code), w)
                  /\ ghost' = MarkWrite(ghost, p,
                                  [NoGhost EXCEPT !.validations = 1,
                                                  !.evals = StatementsRunByValidation(code)])
                  /\ Finish(p, l, IF w = "ok" THEN Str("OK_STORED_PREDEFINED", name, 0)
                                  ELSE Str("ERR_STORE_PREDEFINED", name, 0))
    /\ op' = [op EXCEPT ![p] = "store_predefined_function_js"]
    /\ pre' = [pre EXCEPT ![p] = store]
    /\ created' = {}
    /\ UNCHANGED <<elapsed, host_api_execution_dict_getter>>

GetFunctionDefinition(p) ==
    /\ pc[p] = "idle"
    /\ \E fn \in Names :
         LET def == get_function_definition_js(store, fn)
         IN  Finish(p, [IdleLoc EXCEPT !.function_name = fn, !.fetched = def],
                    NonString(IF def.found THEN "definition" ELSE "null"))
    /\ op' = [op EXCEPT ![p] = "get_function_definition_js"]
    /\ pre' = [pre EXCEPT ![p] = store]
    /\ ghost' = [ghost EXCEPT ![p] = NoGhost]
    /\ created' = {}
    /\ UNCHANGED <<store, elapsed, host_api_execution_dict_getter>>

\* clear_function_store_js: every .json file is unlinked; when readdirSync or an
\* unlinkSync throws, the files not reached yet stay, the fault is logged and
\* the call returns as it does after a complete clear
ClearFunctionStore(p) ==
    /\ pc[p] = "idle"
    /\ \E gone \in SUBSET {n \in StoreNames : store[n].kind # "absent"} :
         LET all == {n \in StoreNames : store[n].kind # "absent"}
         IN  /\ store' = [n \in StoreNames |-> IF n \in gone THEN AbsentFile ELSE store[n]]
             /\ Finish(p, [IdleLoc EXCEPT !.fault = IF gone = all THEN "none" ELSE "fs_fault"],
                       NonString("undefined"))
    /\ op' = [op EXCEPT ![p] = "clear_function_store_js"]
    /\ pre' = [pre EXCEPT ![p] = store]
    /\ ghost' = [ghost EXCEPT ![p] = NoGhost]
    /\ created' = {}
    /\ UNCHANGED <<elapsed, host_api_execution_dict_getter>>

\* the function a host hands to initialize_store_js as apiExecutionDictGetter
HostGetter == "host_getter"

\* initialize_store_js(apiDescriptionGetter, apiExecutionDictGetter): the
\* execution getter is kept as given (the description getter is read only
\* for the text of the synthesis prompt)
InitializeStore(p) ==
    /\ pc[p] = "idle"
    /\ \E g \in {Null, HostGetter} :
         /\ g # host_api_execution_dict_getter
         /\ host_api_execution_dict_getter' = g
    /\ UNCHANGED <<store, pc, op, loc, result, ghost, pre, elapsed, created>>

----------------------------------------------------------------------------
(* execute_dynamic_function *)

\* external_apis_dict_override: left out (the default null) or an object
OverrideInputs == {Null, "override_registry"}

\* the override installed in the place of the host's registry on every call
ExternalApis_OverrideIgnored(override, getter) ==
    IF getter # Null THEN "host_registry" ELSE "empty_registry"

\* external_apis_dict_override !== null ? external_apis_dict_override
\*   : (this.host_api_execution_dict_getter ? this.host_api_execution_dict_getter() : {})
ExternalApis(override, getter) ==
    IF override # Null THEN override
    ELSE IF getter # Null THEN "host_registry"
    ELSE "empty_registry"

\* params_for_function: absent, null, an object, an object that refers to itself
ParamsKinds == {"undefined", "null", "object", "circular"}

\* The first statement builds its log line from
\* JSON.stringify(params_for_function).substring(0, 100), outside every try:
\* JSON.stringify(undefined) is undefined, and a cyclic value makes it throw
EntryLogThrows(params) == params \in {"undefined", "circular"}

\* the first of the required arguments that is === undefined, or "none"
FirstMissingArg(l) ==
    IF l.name = Undefined THEN "new_function_name"
    ELSE IF l.description = Undefined THEN "new_function_description"
    ELSE IF l.schema.ty = "undefined" THEN "new_function_parameters_schema"
    ELSE "none"

\* the test that no name passes: every request goes on to the store lookup
IsCreationToolName_Never(function_name) == FALSE

\* function_name === FUNCTION_CREATION_TOOL_DEFINITION_JS.name
IsCreationToolName(function_name) == function_name = FUNCTION_CREATION_TOOL_NAME

\* A definition request: function_name is the creation tool's name
DispatchDefinitionOn(p, paramsKinds, names, descriptions, schemas) ==
    /\ pc[p] = "idle"
    /\ IsCreationToolName(FUNCTION_CREATION_TOOL_NAME)
    /\ \E pk \in paramsKinds, name \in names, d \in descriptions, s \in schemas :
         LET fields == pk \in {"object", "circular"}
             l == [IdleLoc EXCEPT !.function_name = FUNCTION_CREATION_TOOL_NAME,
                                  !.params = pk,
                                  !.name = IF fields THEN name ELSE Undefined,
                                  !.description = IF fields THEN d ELSE Undefined,
                                  !.schema = IF fields THEN s ELSE UndefinedSchema]
         IN  IF EntryLogThrows(pk)
             THEN Finish(p, l, Raised("TypeError"))
             ELSE IF pk = "null"
             THEN Finish(p, l, Str("ERR_INTERNAL", "TypeError", 0))
             ELSE IF FirstMissingArg(l) # "none"
             THEN Finish(p, l, Str("ERR_MISSING_PARAM", FirstMissingArg(l), 0))
             ELSE CreateDynamicFunctionEntry(p, l)
    /\ op' = [op EXCEPT ![p] = "execute_dynamic_function"]
    /\ pre' = [pre EXCEPT ![p] = store]
    /\ ghost' = [ghost EXCEPT ![p] = NoGhost]
    /\ created' = {}
    /\ UNCHANGED <<store, elapsed, host_api_execution_dict_getter>>

\* a definition request with any params and any fields
DispatchDefinition(p) ==
    DispatchDefinitionOn(p, ParamsKinds, NameInputs, DescriptionInputs,
                         SchemaInputs \ {SchemaB})

\* what the stored callable does when it is called
GuestBehaviours ==
    {"return_string", "return_record", "return_number", "return_undefined",
     "return_function", "return_circular", "throw_error", "throw_null",
     "capability_then_string", "capability_throws", "timer_throws",
     "uses_process", "never_settles", "sync_loop"}

\* the properties of the sandbox object given to vm.createContext: the global
\* names the stored code finds bound
SandboxGlobals ==
    {"params", "external_apis", "JSON", "uuidv4", "Math", "console",
     "setTimeout", "clearTimeout", "setInterval", "clearInterval", "Promise"}

\* the global name the callable's body refers to, by behaviour
Facility(b) ==
    CASE b \in {"capability_then_string", "capability_throws"} -> "external_apis"
      [] b = "timer_throws" -> "setTimeout"
      [] b = "uses_process" -> "process"
      [] OTHER -> "params"

\* the callable awaits a call of external_apis
CallsCapability(b) == b \in {"capability_then_string", "capability_throws"}

\* the callable hands setTimeout a callback that throws, and returns a string
SchedulesThrowingTimer(b) == b = "timer_throws" /\ Facility(b) \in SandboxGlobals

\* the value the awaited promise resolves to, by behaviour
ReturnedValue(b) ==
    CASE b = "return_string" -> "string"
      [] b = "capability_then_string" -> "string"
      [] b = "timer_throws" -> "string"
      [] b = "return_record" -> "record"
      [] b = "return_number" -> "number"
      [] b = "return_undefined" -> "undefined"
      [] b = "return_function" -> "function"
      [] b = "return_circular" -> "circular"
      [] OTHER -> "none"

\* what the awaited promise is rejected with, by behaviour: an Error the code
\* or an awaited capability call threw, the ReferenceError of a name that is
\* not bound in the context, the value null, or "none"
ThrownValue(b) ==
    IF Facility(b) \notin SandboxGlobals THEN "Error"
    ELSE CASE b \in {"throw_error", "capability_throws"} -> "Error"
           [] b = "throw_null" -> "null"
           [] OTHER -> "none"

\* JSON.stringify(result): a text, the value undefined, or a TypeError
StringifyResult(v) ==
    CASE v \in {"record", "number"} -> "text"
      [] v \in {"undefined", "function"} -> "undefined"
      [] v = "circular" -> "throws"

\* JSON.stringify called outside the inner try: its fault reaches the outer catch
CoerceResult_NoInnerTry(fn, v) ==
    IF v = "string" THEN Str("GUEST_STRING", fn, 0)
    ELSE CASE StringifyResult(v) = "text" -> Str("JSON_TEXT", v, 0)
           [] StringifyResult(v) = "undefined" -> NonString("undefined")
           [] StringifyResult(v) = "throws" -> Str("ERR_EXEC", "TypeError", 0)

\* the statements after the await: the result handed back for a resolved value
CoerceResult(fn, v) ==
    IF v = "string" THEN Str("GUEST_STRING", fn, 0)
    ELSE CASE StringifyResult(v) = "text" -> Str("JSON_TEXT", v, 0)
           [] StringifyResult(v) = "undefined" -> NonString("undefined")
           [] StringifyResult(v) = "throws" -> Str("ERR_NOT_SERIALIZABLE", v, 0)

\* catch (exec_error): the handler reads exec_error.stack and exec_error.message,
\* which throws for a thrown null or undefined
CatchExecError(fn, thrown) ==
    IF thrown = "null" THEN Raised("TypeError") ELSE Str("ERR_EXEC", thrown, 0)

\* An invocation request: any other function_name
\* an invocation that removes the record it has run
StoreAfterInvocation_Unlinks(st, function_name) ==
    [n \in DOMAIN st |-> IF n = function_name THEN AbsentFile ELSE st[n]]

\* The store after the invocation branch of execute_dynamic_function: the
\* branch reads the record with get_function_definition_js and has no
\* fs.writeFileSync, fs.unlinkSync or this.llm_complete call on any path
StoreAfterInvocation(st, function_name) == st

DispatchInvocation(p) ==
    /\ pc[p] = "idle"
    /\ \E fn \in {n \in Names : ~IsCreationToolName(n)}, pk \in ParamsKinds,
          b \in GuestBehaviours, ov \in OverrideInputs :
         LET l == [IdleLoc EXCEPT !.function_name = fn, !.params = pk, !.override = ov,
                                  !.getter_at_call = host_api_execution_dict_getter]
             def == get_function_definition_js(store, fn)
             code == def.data.code_string
             apis == ExternalApis(ov, host_api_execution_dict_getter)
             does == IF ~DefinesCallable(code, fn) THEN "throw_error"
                     ELSE IF CallsCapability(b) /\ apis = "empty_registry"
                     THEN "throw_error"
                     ELSE b
         IN  IF EntryLogThrows(pk)
             THEN /\ Finish(p, l, Raised("TypeError"))
                  /\ ghost' = [ghost EXCEPT ![p] = NoGhost]
             ELSE IF ~def.found \/ FalsyText(code)
             THEN /\ Finish(p, l, Str("ERR_NOT_FOUND", fn, 0))
                  /\ ghost' = [ghost EXCEPT ![p] = NoGhost]
             ELSE IF ~Parses(code)
             THEN /\ Finish(p, l, CatchExecError(fn, "SyntaxError"))
                  /\ ghost' = [ghost EXCEPT ![p] = NoGhost]
             ELSE /\ pc' = [pc EXCEPT ![p] = IF does = "sync_loop" THEN "running"
                                             ELSE "sandbox"]
                  /\ loc' = [loc EXCEPT ![p] =
                                [l EXCEPT !.behaviour = does, !.fetched = def,
                                          !.sandbox = SandboxGlobals,
                                          !.external_apis = apis,
                                          !.timer = IF SchedulesThrowingTimer(does)
                                                    THEN "pending" ELSE "none"]]
                  /\ result' = result
                  /\ ghost' = [ghost EXCEPT ![p] =
                                  [NoGhost EXCEPT !.evals = 1,
                                      !.capcalls = IF CallsCapability(does) THEN 1 ELSE 0]]
    /\ store' = StoreAfterInvocation(store, loc'[p].function_name)
    /\ op' = [op EXCEPT ![p] = "execute_dynamic_function"]
    /\ pre' = [pre EXCEPT ![p] = store]
    /\ UNCHANGED <<elapsed, created, host_api_execution_dict_getter>>

\* the promise of script.runInContext settles: the await resumes
SandboxSettle(p) ==
    /\ pc[p] = "sandbox"
    /\ loc[p].behaviour # "never_settles"
    /\ LET b == loc[p].behaviour
           fn == loc[p].function_name
       IN  Finish(p, loc[p],
                  IF ThrownValue(b) # "none" THEN CatchExecError(fn, ThrownValue(b))
                  ELSE CoerceResult(fn, ReturnedValue(b)))
    /\ store' = StoreAfterInvocation(store, loc[p].function_name)
    /\ UNCHANGED <<op, ghost, pre, elapsed, created,
                   host_api_execution_dict_getter>>

\* A callback the stored code gave to setTimeout runs and throws. The sandbox
\* binds the host's setTimeout, so the callback runs from the host's timer
\* queue, outside the try of execute_dynamic_function and outside the awaited
\* promise: the host process gets an uncaught exception
TimerCallback(p) ==
    /\ pc[p] \in {"sandbox", "done"}
    /\ loc[p].timer = "pending"
    /\ loc' = [loc EXCEPT ![p].timer = "uncaught_exception"]
    /\ UNCHANGED <<store, pc, op, result, ghost, pre, elapsed, created,
                   host_api_execution_dict_getter>>

\* time passes while the script runs or its promise is pending; nothing in
\* the executor is scheduled by it
Tick(p) ==
    /\ pc[p] \in {"sandbox", "running"}
    /\ elapsed[p] < MaxTicks
    /\ elapsed' = [elapsed EXCEPT ![p] = @ + 1]
    /\ UNCHANGED <<store, pc, op, loc, result, ghost, pre, created,
                   host_api_execution_dict_getter>>

\* The caller takes the result; it may call again
Return(p) ==
    /\ pc[p] = "done"
    /\ pc' = [pc EXCEPT ![p] = "idle"]
    /\ op' = [op EXCEPT ![p] = "none"]
    /\ loc' = [loc EXCEPT ![p] = IdleLoc]
    /\ result' = [result EXCEPT ![p] = NoResult]
    /\ ghost' = [ghost EXCEPT ![p] = NoGhost]
    /\ pre' = [pre EXCEPT ![p] = store]
    /\ elapsed' = [elapsed EXCEPT ![p] = 0]
    /\ UNCHANGED <<store, created, host_api_execution_dict_getter>>

Next ==
    \E p \in Callers :
        \/ CallCreateDynamicFunction(p)
        \/ DispatchDefinition(p)
        \/ CreateAttempt(p)
        \/ StorePredefinedFunction(p)
        \/ GetFunctionDefinition(p)
        \/ ClearFunctionStore(p)
        \/ InitializeStore(p)
        \/ DispatchInvocation(p)
        \/ SandboxSettle(p)
        \/ TimerCallback(p)
        \/ Tick(p)
        \/ Return(p)

Spec == Init /\ [][Next]_vars

----------------------------------------------------------------------------
(* Two definition requests in flight at once. A call of an async method runs *)
(* without interruption from one await to the next, so the calls interleave  *)
(* at the awaits of the oracle call and nowhere else.                        *)

ConcCallers == {1, 2}

\* each caller gives its own description, so the two records differ
ConcDescription(p) == IF p = 1 THEN "d1" ELSE "d2"

\* the oracle's answers followed here: a fault, a text that does not parse,
\* and two different definitions of the name
ConcOutcomes ==
    {[kind |-> "throw", content |-> <<>>],
     [kind |-> "content", content |-> <<BAD>>],
     [kind |-> "content", content |-> <<FUNC("f")>>],
     [kind |-> "content", content |-> <<FO, WS, STMT, FUNC("f"), WS, FC>>]}

InitConc ==
    /\ store = [n \in StoreNames |-> AbsentFile]
    /\ pc = [p \in ConcCallers |-> "idle"]
    /\ op = [p \in ConcCallers |-> "none"]
    /\ loc = [p \in ConcCallers |-> IdleLoc]
    /\ result = [p \in ConcCallers |-> NoResult]
    /\ ghost = [p \in ConcCallers |-> NoGhost]
    /\ pre = [p \in ConcCallers |-> store]
    /\ elapsed = [p \in ConcCallers |-> 0]
    /\ created = {}
    /\ host_api_execution_dict_getter = Null

\* execute_dynamic_function("create_dynamic_function", {new_function_name: "f", ...})
ConcDefinitionRequest(p) ==
    DispatchDefinitionOn(p, {"object"}, {"f"}, {ConcDescription(p)}, {SchemaA})

\* the claim followed here is about requests that succeed: the write returns
ConcWrites == {"ok"}

ConcCreateAttempt(p) == CreateAttemptOn(p, ConcOutcomes, ConcWrites)

NextConc ==
    \E p \in ConcCallers :
        \/ ConcDefinitionRequest(p)
        \/ ConcCreateAttempt(p)
        \/ Return(p)

SpecConc == InitConc /\ [][NextConc]_vars

----------------------------------------------------------------------------
(* Properties *)

\* caller p's call has returned or rejected
Done(p) == pc[p] = "done"

\* caller p's call is an execute_dynamic_function call for the creation tool
IsDefinitionRequest(p) ==
    op[p] = "execute_dynamic_function"
    /\ loc[p].function_name = FUNCTION_CREATION_TOOL_NAME

\* caller p's call is an execute_dynamic_function call for any other name
IsInvocationRequest(p) ==
    op[p] = "execute_dynamic_function"
    /\ loc[p].function_name # FUNCTION_CREATION_TOOL_NAME

\* caller p's call runs create_dynamic_function, directly or by the dispatcher
IsCreateRun(p) == op[p] = "create_dynamic_function" \/ IsDefinitionRequest(p)

\* caller p's create_dynamic_function run went through the loop and left it
\* with a candidate that passed validation
Validated(p) == ghost[p].oracle > 0 /\ loc[p].last_error = NoError

\* C1: every execute_dynamic_function call, whatever its params, ends by
\* returning a value; its promise is never rejected.
C1_DispatcherNeverRaises ==
    \A p \in Callers :
        (Done(p) /\ op[p] = "execute_dynamic_function") => result[p].kind # "raised"

\* C2: one create_dynamic_function run makes at most
\* MAX_SYNTAX_REPAIR_RETRIES + 1 = 4 oracle calls, one per attempt; a run in
\* which no attempt validates makes exactly 4 and returns the synthesis-failure
\* string.
C2_AtMostFourOracleCalls ==
    \A p \in Callers :
        IsCreateRun(p) =>
            /\ ghost[p].oracle <= MAX_SYNTAX_REPAIR_RETRIES + 1
            /\ pc[p] = "synth" => ghost[p].oracle = loc[p].attempt
            /\ (Done(p) /\ ghost[p].oracle > 0 /\ ~Validated(p)) =>
                   /\ ghost[p].oracle = MAX_SYNTAX_REPAIR_RETRIES + 1
                   /\ loc[p].attempt = MAX_SYNTAX_REPAIR_RETRIES + 1
                   /\ result[p].kind = "string"
                   /\ result[p].tag = "ERR_SYNTHESIS_FAILED"

\* a run that made four oracle calls, none validated
C2_Witness ==
    \E p \in Callers :
        /\ IsCreateRun(p) /\ Done(p) /\ ~Validated(p)
        /\ ghost[p].oracle = 4
        /\ result[p].tag = "ERR_SYNTHESIS_FAILED"

\* C3 as stated: when attempt k is the first to validate, the run has made
\* exactly k + 1 oracle calls, goes on to the write and reports success.
C3_FirstValidReportsSuccess ==
    \A p \in Callers :
        (IsCreateRun(p) /\ Done(p) /\ Validated(p)) =>
            /\ ghost[p].oracle = loc[p].attempt + 1
            /\ ghost[p].writes = 1
            /\ result[p] = Str("OK_CREATED", loc[p].name, 0)

\* C3 amended: when attempt k is the first to validate, the run has made
\* exactly k + 1 oracle calls and goes on to one write; it reports success when
\* the write succeeds and the storage error string when the write fails.
C3_FirstValidStopsLoop ==
    \A p \in Callers :
        (IsCreateRun(p) /\ Done(p) /\ Validated(p)) =>
            /\ ghost[p].oracle = loc[p].attempt + 1
            /\ ghost[p].writes = 1
            /\ \/ /\ result[p] = Str("OK_CREATED", loc[p].name, 0)
                  /\ store[loc[p].name] = JsonFile(CreatedFuncData(loc[p]))
               \/ /\ result[p] = Str("ERR_STORE", loc[p].name, 0)
                  /\ store[loc[p].name] \in {pre[p][loc[p].name], PartialFile}

\* attempt 0 and attempt 1 failed, attempt 2 validated: three oracle calls,
\* the record written, success reported
C3_Witness ==
    \E p \in Callers :
        /\ IsCreateRun(p) /\ Done(p) /\ Validated(p)
        /\ loc[p].attempt = 2 /\ ghost[p].oracle = 3
        /\ result[p].tag = "OK_CREATED"
        /\ store[loc[p].name].kind = "json"

\* C4: a run whose attempts are used up without a valid candidate returns
\* the error string that carries the last error and the attempt count, writes
\* nothing, and leaves every record, the one under its own name included, as
\* get_function_definition_js returned it before.
C4_ExhaustedWritesNothing ==
    \A p \in Callers :
        (IsCreateRun(p) /\ Done(p) /\ ghost[p].oracle > 0 /\ ~Validated(p)) =>
            /\ result[p] = Str("ERR_SYNTHESIS_FAILED", loc[p].last_error,
                               MAX_SYNTAX_REPAIR_RETRIES + 1)
            /\ loc[p].last_error # NoError
            /\ ghost[p].writes = 0
            /\ store = pre[p]
            /\ get_function_definition_js(store, loc[p].name)
                   = get_function_definition_js(pre[p], loc[p].name)

\* the budget is used up by a run for a name that has a record
C4_Witness ==
    \E p \in Callers :
        /\ IsCreateRun(p) /\ Done(p) /\ ~Validated(p)
        /\ ghost[p].oracle = MAX_SYNTAX_REPAIR_RETRIES + 1
        /\ get_function_definition_js(pre[p], loc[p].name).found
        /\ get_function_definition_js(store, loc[p].name).found

\* C5: every record in the store holds code that parses and defines a
\* callable named as the record.
C5_StoredCodeDefinesName ==
    \A n \in StoreNames :
        store[n].kind = "json" =>
            /\ Parses(store[n].data.code_string)
            /\ DefinesCallable(store[n].data.code_string, store[n].data.name)

\* the request of caller p lacks one of the three required fields
LacksRequiredField(p) ==
    Falsy(loc[p].name) \/ Falsy(loc[p].description) \/ FalsySchema(loc[p].schema)

\* the name of the request of caller p is no identifier of the language
NotABareIdentifier(p) ==
    ~IsIdentifierName(loc[p].name) \/ IsReservedWord(loc[p].name)

\* C6: a definition request that lacks a required field or whose name is no
\* bare identifier is answered with an error string, with no oracle call made
\* and the store as it was.
C6_InvalidRequestRejected ==
    \A p \in Callers :
        (IsCreateRun(p) /\ Done(p) /\ (LacksRequiredField(p) \/ NotABareIdentifier(p))) =>
            /\ result[p].kind = "string"
            /\ result[p].tag \in ErrorTags
            /\ ghost[p].oracle = 0
            /\ store = pre[p]

\* C7: an invocation request for a name that has no record returns the
\* not-found string; no oracle call, validation, sandbox evaluation or
\* capability call is made and the store stays as it was.
C7_UnknownNameNotFound ==
    \A p \in Callers :
        (IsInvocationRequest(p) /\ Done(p)
            /\ ~get_function_definition_js(pre[p], loc[p].function_name).found) =>
            /\ result[p] = Str("ERR_NOT_FOUND", loc[p].function_name, 0)
            /\ ghost[p] = NoGhost
            /\ store = pre[p]

\* C8: a sandbox run whose callable never resolves is aborted once
\* SCRIPT_TIMEOUT_MS has passed: no such run is still pending after that time.
C8_AbortedAtTimeout ==
    \A p \in Callers :
        (pc[p] \in {"sandbox", "running"}
            /\ loc[p].behaviour \in {"never_settles", "sync_loop"}) =>
            elapsed[p] * TickMs <= SCRIPT_TIMEOUT_MS

\* the stored callable of caller p's invocation was called and returned a value
CallableReturned(p) ==
    /\ IsInvocationRequest(p) /\ Done(p) /\ ghost[p].evals = 1
    /\ ReturnedValue(loc[p].behaviour) # "none"

\* C9: whatever value the stored callable returns, the invocation hands
\* back a string.
C9_ResultAlwaysString ==
    \A p \in Callers : CallableReturned(p) => result[p].kind = "string"

Evaluated(p) == IsInvocationRequest(p) /\ ghost[p].evals = 1

\* C11: a fault raised while the stored code is evaluated or its callable runs
\* (thrown by the code, by an awaited step, by a capability call, or by a
\* callback the code gave to a timer) is reported as the runtime-fault error
\* string; the call is not rejected and the host gets no uncaught exception.
C11_GuestFaultsCaught ==
    \A p \in Callers :
        Evaluated(p) =>
            /\ loc[p].timer # "uncaught_exception"
            /\ (Done(p) /\ ThrownValue(loc[p].behaviour) # "none")
                   => result[p].kind = "string" /\ result[p].tag = "ERR_EXEC"

\* the schema object is a JSON value: none of its properties is undefined
IsJsonValue(schema) ==
    schema.ty = "object" /\ \A i \in 1..Len(schema.props) : schema.props[i].val # "undefined"

\* caller p's call is a store operation that reported success
StoreSucceeded(p) ==
    Done(p) /\ result[p].kind = "string"
            /\ result[p].tag \in {"OK_CREATED", "OK_STORED_PREDEFINED"}

\* the schema caller p handed to its store operation is a valid one: a JSON
\* object for create_dynamic_function, a JSON text for store_predefined_function_js
GaveValidSchema(p) ==
    IF op[p] = "store_predefined_function_js"
    THEN ~JSON_parse_throws(loc[p].schema_json)
    ELSE IsJsonValue(loc[p].schema)

\* C12: after a store operation with a valid name, description and schema has
\* reported success, get_function_definition_js of that name gives a record
\* whose name, description, parameter schema, code and is_internal flag are the
\* ones that were stored.
C12_StoreThenGetIsIdentity ==
    \A p \in Callers :
        (StoreSucceeded(p) /\ GaveValidSchema(p)) =>
            LET def == get_function_definition_js(store, loc[p].name)
            IN  /\ def.found
                /\ def.data.name = loc[p].name
                /\ def.data.description = loc[p].description
                /\ def.data.code_string = loc[p].sanitized_code
                /\ def.data.is_internal_special_function = FALSE
                /\ IF op[p] = "store_predefined_function_js"
                   THEN /\ def.data.parameters_schema_json = loc[p].schema_json
                        /\ def.parameters_schema = JSON_parse(loc[p].schema_json)
                   ELSE def.parameters_schema = loc[p].schema

\* a creation whose oracle answer was fenced stored a record under a JSON schema
C12_Witness ==
    \E p \in Callers :
        /\ StoreSucceeded(p) /\ GaveValidSchema(p)
        /\ IsCreateRun(p)
        /\ loc[p].generated_code_string # loc[p].sanitized_code
        /\ get_function_definition_js(store, loc[p].name).parameters_schema = SchemaA

\* C12 read for every schema object a caller can hand over, an object with an
\* undefined-valued property included: TLC finds it violated (the property is
\* not in the fetched schema)
C12_AnySchemaObject ==
    \A p \in Callers :
        (StoreSucceeded(p) /\ IsCreateRun(p)) =>
            get_function_definition_js(store, loc[p].name).parameters_schema = loc[p].schema

\* the record caller p's store operation handed to fs.writeFileSync
WrittenRecord(p) ==
    IF op[p] = "store_predefined_function_js"
    THEN FuncData(loc[p].name, loc[p].description, loc[p].schema_json, loc[p].sanitized_code)
    ELSE CreatedFuncData(loc[p])

\* C13: after a successful store under a name, get_function_definition_js of
\* that name returns exactly the record of that store, with no field of an
\* earlier record under the name, and the files of all other names are the
\* ones from before the store.
C13_LastStoreWins ==
    \A p \in Callers :
        StoreSucceeded(p) =>
            LET def == get_function_definition_js(store, loc[p].name)
            IN  /\ def.found
                /\ def.data = WrittenRecord(p)
                /\ \A m \in StoreNames \ {loc[p].name} : store[m] = pre[p][m]

\* caller p's store operation reached fs.writeFileSync and reported its failure
StoreWriteFailed(p) ==
    Done(p) /\ ghost[p].writes = 1 /\ result[p].kind = "string"
            /\ result[p].tag \in {"ERR_STORE", "ERR_STORE_PREDEFINED"}

\* C14: a store operation whose write fails returns the storage error string
\* and leaves the store as it was: the record that was under the name before is
\* still there and get_function_definition_js still returns it.
C14_FailedWriteKeepsPrior ==
    \A p \in Callers :
        /\ (Done(p) /\ ghost[p].writes = 1) => (StoreSucceeded(p) \/ StoreWriteFailed(p))
        /\ StoreWriteFailed(p) =>
              /\ store = pre[p]
              /\ get_function_definition_js(store, loc[p].name)
                    = get_function_definition_js(pre[p], loc[p].name)

\* the file holds a record marked internal
IsInternalRecord(f) == f.kind = "json" /\ f.data.is_internal_special_function

\* C15: when clear_function_store_js returns as completed, every record not
\* marked internal is gone and every record marked internal is still there; a
\* storage fault during the clear is reported to the caller as a failure.
C15_ClearRemovesOrReports ==
    \A p \in Callers :
        (Done(p) /\ op[p] = "clear_function_store_js") =>
            IF result[p].kind = "raised" \/ (result[p].kind = "string" /\ result[p].tag \in ErrorTags)
            THEN TRUE
            ELSE \A n \in StoreNames :
                    IF IsInternalRecord(pre[p][n]) THEN store[n] = pre[p][n]
                    ELSE store[n] = AbsentFile

\* the names the claim lists: the parameters, the capability object, JSON,
\* the random-id generator, math and the redirected logging
ClaimedSandboxNames == {"params", "external_apis", "JSON", "uuidv4", "Math", "console"}

\* C16: the names bound in the sandbox of an invocation are exactly the
\* parameters, the capability object, JSON, the id generator, math and the
\* logging object; code that refers to any other host facility fails (the
\* invocation returns the runtime-fault string) and gets nothing to work with.
C16_SandboxOnlyClaimedNames ==
    \A p \in Callers :
        Evaluated(p) =>
            /\ loc[p].sandbox = ClaimedSandboxNames
            /\ (Done(p) /\ Facility(loc[p].behaviour) \notin ClaimedSandboxNames)
                  => result[p].kind = "string" /\ result[p].tag = "ERR_EXEC"

\* C17: once a creation for a name has reported success, an invocation of the
\* name that follows it (only invocations in between, so no clear and no other
\* write) does not answer not-found: the stored code
\* is evaluated, it defines the callable of that name, the callable is called
\* with the parameters and its result is what the invocation returns.
C17_CreatedThenInvocable ==
    \A p \in Callers :
        (IsInvocationRequest(p) /\ pc[p] # "idle" /\ loc[p].function_name \in created) =>
            /\ Evaluated(p)
            /\ DefinesCallable(loc[p].fetched.data.code_string, loc[p].function_name)
            /\ (Done(p) /\ ReturnedValue(loc[p].behaviour) = "string")
                  => result[p] = Str("GUEST_STRING", loc[p].function_name, 0)

\* C18: an override given to an invocation is what that invocation's code gets
\* as external_apis, whatever the host registered; an invocation without an
\* override gets the registry of the host's getter (an empty one when no
\* getter is set); and an invocation leaves the executor's getter as it was.
C18_OverrideForOneInvocation ==
    \A p \in Callers :
        Evaluated(p) =>
            /\ loc[p].external_apis =
                  IF loc[p].override # Null THEN loc[p].override
                  ELSE IF host_api_execution_dict_getter = HostGetter THEN "host_registry"
                  ELSE "empty_registry"
            /\ host_api_execution_dict_getter = loc[p].getter_at_call

\* an invocation with an override has called the override's capability and
\* returned while the host's getter is set
C18_Witness ==
    \E p \in Callers :
        /\ Evaluated(p) /\ Done(p)
        /\ loc[p].override = "override_registry"
        /\ host_api_execution_dict_getter = HostGetter
        /\ loc[p].behaviour = "capability_then_string"
        /\ result[p].tag = "GUEST_STRING"

\* the synthesis prompt of caller p's creation
SynthesisPrompt(p) ==
    GenerateJSFunctionCreationPrompt(loc[p].name, loc[p].description, loc[p].schema,
                                     FALSE, <<>>, NoError)

\* C19: attempt 0 sends the synthesis prompt, and an attempt k >= 1 that
\* follows a validation failure sends a repair prompt with the candidate that
\* the oracle produced at attempt k-1 and the message of the validation error
\* of attempt k-1.
C19_RepairPromptCarriesPrevious ==
    \A p \in Callers :
        pc[p] = "synth" =>
            LET prompt == PromptOfAttempt(loc[p])
                h == loc[p].hist
            IN  /\ loc[p].attempt = 0 => prompt = SynthesisPrompt(p)
                /\ (loc[p].attempt >= 1 /\ h.kind = "invalid") =>
                      /\ h.k = loc[p].attempt - 1
                      /\ prompt.is_repair
                      /\ prompt.previous_code = h.raw
                      /\ prompt.error_message = h.error

\* the last attempt of a run is about to send its prompt after the attempt
\* before it failed validation on the second unparsable candidate
C19_Witness ==
    \E p \in Callers :
        /\ pc[p] = "synth" /\ loc[p].attempt = 3
        /\ loc[p].hist.kind = "invalid" /\ loc[p].hist.raw = <<BAD2>>
        /\ PromptOfAttempt(loc[p]).error_message = "SyntaxError: Unexpected end of input"

\* C20: an oracle call that fails (a fault or an empty answer) uses up one
\* attempt, and the attempt after it sends a repair prompt with the last
\* candidate the oracle produced in the run, or, when there is none yet, the
\* synthesis prompt again.
C20_AfterOracleFailure ==
    \A p \in Callers :
        (pc[p] = "synth" /\ loc[p].hist.kind \in {"oracle_fault", "empty"}) =>
            LET prompt == PromptOfAttempt(loc[p])
                h == loc[p].hist
            IN  /\ loc[p].attempt = h.k + 1
                /\ ghost[p].oracle = loc[p].attempt
                /\ IF h.candidate = <<>> THEN prompt = SynthesisPrompt(p)
                   ELSE prompt.is_repair /\ prompt.previous_code = h.candidate

\* caller p's definition request has reported success
DefinitionSucceeded(p) ==
    Done(p) /\ IsCreateRun(p) /\ result[p] = Str("OK_CREATED", loc[p].name, 0)

\* when both requests have succeeded, the file of the name is the whole record
\* of the request that wrote last
LastWriterWins ==
    \A p, q \in ConcCallers :
        (p # q /\ DefinitionSucceeded(p) /\ DefinitionSucceeded(q)
              /\ loc[p].name = loc[q].name /\ ghost[p].last_write) =>
            /\ ~ghost[q].last_write
            /\ store[loc[p].name] = JsonFile(CreatedFuncData(loc[p]))

\* a step of one request leaves the position, the locals (candidate, last
\* error, attempt counter) and the result of the other request as they are
LocalsOfOtherUntouched ==
    \A p, q \in ConcCallers :
        (p # q /\ <<pc[p], loc[p], ghost[p].oracle>> # <<pc'[p], loc'[p], ghost'[p].oracle>>) =>
            <<pc'[q], loc'[q], result'[q]>> = <<pc[q], loc[q], result[q]>>

\* C21: when two definition requests for one name interleave at their oracle
\* calls and both succeed, the store ends with the whole record of the one
\* that wrote last, never a mixture of the two, and no step of one request
\* changes the attempt state of the other.
C21_ConcurrentLastWriterWins == [](LastWriterWins) /\ [][LocalsOfOtherUntouched]_vars

\* both requests started on the same store and were in the loop together,
\* both have succeeded after failed attempts, with different code, and the
\* first caller wrote last
C21_Witness ==
    /\ DefinitionSucceeded(1) /\ DefinitionSucceeded(2)
    /\ ghost[1].last_write
    /\ ghost[1].oracle = 2 /\ ghost[2].oracle = 3
    /\ loc[1].sanitized_code # loc[2].sanitized_code
    /\ pre[1] = pre[2]
    /\ store["f"].data.description = "d1"

\* caller p's call is a definition request, a direct creation, or a
\* store_predefined_function_js call
IsStoreOperation(p) == IsCreateRun(p) \/ op[p] = "store_predefined_function_js"

\* C22: during a creation and during store_predefined_function_js no statement
\* of the candidate code is executed and no capability is called, whatever the
\* candidate is.
C22_ValidationRunsNothing ==
    \A p \in Callers :
        IsStoreOperation(p) => ghost[p].evals = 0 /\ ghost[p].capcalls = 0

\* a creation validated two candidates, the second one a statement that is
\* stored without having been run
C22_Witness ==
    \E p \in Callers :
        /\ Done(p) /\ IsCreateRun(p)
        /\ ghost[p].validations = 2 /\ ghost[p].writes = 1
        /\ loc[p].sanitized_code = <<STMT>>
        /\ ghost[p].evals = 0

\* the funcData caller p gave to store_predefined_function_js has its four
\* fields, a name of identifier shape, and a code that compiles in the
\* validation script
PredefinedPassesChecks(p) ==
    /\ ~Falsy(loc[p].name) /\ ~Falsy(loc[p].description)
    /\ loc[p].schema_json # EmptyJsonText /\ ~FalsyText(loc[p].sanitized_code)
    /\ IsIdentifierName(loc[p].name)
    /\ Parses(loc[p].sanitized_code) /\ ~IsReservedWord(loc[p].name)

\* C23: store_predefined_function_js makes no oracle call; it writes only when
\* the field check, the identifier check and the code validation have passed;
\* and when one of them rejects the funcData it returns an error string and the
\* store is as it was before the call.
C23_PredefinedValidatedBeforeWrite ==
    \A p \in Callers :
        op[p] = "store_predefined_function_js" =>
            /\ ghost[p].oracle = 0
            /\ ghost[p].writes = 1 => (PredefinedPassesChecks(p) /\ ghost[p].validations = 1)
            /\ (Done(p) /\ ~PredefinedPassesChecks(p)) =>
                  /\ result[p].kind = "string"
                  /\ result[p].tag \in {"ERR_MISSING_FIELDS", "ERR_INVALID_NAME",
                                        "ERR_SYNTAX_PREDEFINED"}
                  /\ ghost[p].writes = 0
                  /\ store = pre[p]
            /\ (Done(p) /\ PredefinedPassesChecks(p)) => ghost[p].writes = 1

\* a funcData whose code does not parse was rejected while a record of the
\* same name was in the store
C23_Witness ==
    \E p \in Callers :
        /\ Done(p) /\ op[p] = "store_predefined_function_js"
        /\ result[p].tag = "ERR_SYNTAX_PREDEFINED"
        /\ loc[p].sanitized_code = <<BAD>>
        /\ pre[p][loc[p].name].kind = "json"
        /\ store = pre[p]

\* C24: the record written by a creation that reports success has a code that
\* is not empty, and an invocation that follows the creation is not answered
\* with "not found or has no code".
C24_CreatedCodeNotEmpty ==
    \A p \in Callers :
        /\ DefinitionSucceeded(p) =>
              ~FalsyText(get_function_definition_js(store, loc[p].name).data.code_string)
        /\ (IsInvocationRequest(p) /\ Done(p) /\ loc[p].function_name \in created) =>
              result[p] # Str("ERR_NOT_FOUND", loc[p].function_name, 0)

\* C25: after store_predefined_function_js has returned its success string for
\* a name, get_function_definition_js of the name gives a definition, with a
\* code, so that the dispatcher's test for "not found or has no code" does not
\* hold of it; this for every funcData that passed the checks, whatever its
\* non-empty schema text.
C25_PredefinedStoredIsFetchable ==
    \A p \in Callers :
        (Done(p) /\ op[p] = "store_predefined_function_js"
                 /\ result[p] = Str("OK_STORED_PREDEFINED", loc[p].name, 0)) =>
            LET def == get_function_definition_js(store, loc[p].name)
            IN  def.found /\ ~FalsyText(def.data.code_string)

\* the results the creation branch of the dispatcher and create_dynamic_function
\* hand back
DefinitionPathTags ==
    {"ERR_INTERNAL", "ERR_MISSING_PARAM", "ERR_MISSING_ARGS", "ERR_INVALID_NAME",
     "ERR_SYNTHESIS_FAILED", "ERR_STORE", "OK_CREATED"}

\* C26: a request whose function name is create_dynamic_function never reads
\* the store for a definition of that name and never runs anything in the
\* sandbox, also when a record is stored under that name; once past the first
\* statement of the dispatcher it is handled by the creation branch.
C26_ReservedNameNeverExecuted ==
    \A p \in Callers :
        (op[p] = "execute_dynamic_function"
            /\ loc[p].function_name = FUNCTION_CREATION_TOOL_NAME) =>
            /\ ghost[p].evals = 0 /\ ghost[p].capcalls = 0
            /\ loc[p].fetched = NullDefinition
            /\ loc[p].behaviour = "none"
            /\ pc[p] \notin {"sandbox", "running"}
            /\ (Done(p) /\ ~EntryLogThrows(loc[p].params)) =>
                  result[p].kind = "string" /\ result[p].tag \in DefinitionPathTags

\* a definition request went through the loop and ended while a record with a
\* callable was stored under the name create_dynamic_function
C26_Witness ==
    \E p \in Callers :
        /\ Done(p) /\ IsDefinitionRequest(p)
        /\ ghost[p].oracle >= 1
        /\ pre[p][FUNCTION_CREATION_TOOL_NAME].kind = "json"
        /\ DefinesCallable(pre[p][FUNCTION_CREATION_TOOL_NAME].data.code_string,
                           FUNCTION_CREATION_TOOL_NAME)

\* C27: when a creation reports success, the write has been made and is
\* complete, and the code in the file is the sanitized text of the answer to
\* the very attempt that passed validation: not the text of an earlier attempt
\* and not the answer with its fences.
C27_StoredCodeIsValidatedCandidate ==
    \A p \in Callers :
        DefinitionSucceeded(p) =>
            LET h == loc[p].hist
                file == store[loc[p].name]
            IN  /\ h.kind = "valid"
                /\ h.k = ghost[p].oracle - 1
                /\ ghost[p].writes = 1
                /\ file.kind = "json"
                /\ file.data.code_string = Sanitize(h.raw)
                /\ ValidationScriptCompiles(file.data.code_string, loc[p].name)

\* the third answer, a fenced definition, passed after two answers that failed
\* validation, and the creation reported success
C27_Witness ==
    \E p \in Callers :
        /\ DefinitionSucceeded(p)
        /\ ghost[p].oracle = 3 /\ ghost[p].validations = 3
        /\ loc[p].hist.raw = <<FO, WS, FUNC(loc[p].name), WS, FC>>
        /\ store[loc[p].name].data.code_string = <<FUNC(loc[p].name)>>

\* C28: during and after an invocation request (a dispatcher call for a name
\* other than the creation tool's) the store is what it was when the call
\* began and the call has made no oracle call and no write, for every outcome:
\* rejected, not found, runtime fault, unserializable result, result returned,
\* still pending.
C28_InvocationLeavesStoreAndOracle ==
    \A p \in Callers :
        IsInvocationRequest(p) =>
            /\ store = pre[p]
            /\ ghost[p].oracle = 0
            /\ ghost[p].writes = 0

\* an invocation of a stored record ended with the could-not-be-serialized
\* string, and the record is in the store as before
C28_Witness ==
    \E p \in Callers :
        /\ IsInvocationRequest(p) /\ Done(p)
        /\ result[p].kind = "string" /\ result[p].tag = "ERR_NOT_SERIALIZABLE"
        /\ store[loc[p].function_name].kind = "json"
        /\ store = pre[p]

=============================================================================
